---- MODULE Spec2Model ----
(***************************************************************************)
(* A model of beancount/query/query_render.py: the column renderers        *)
(* (update / prepare / width / format) and render_text(), which drives     *)
(* them over a table of typed rows and writes a box-drawn text table.      *)
(*                                                                         *)
(* Python values are modelled as records tagged by a field k ("None",      *)
(* "str", "date", "dec", "pos", "inv", "amount"); Python strings are TLA+  *)
(* strings.  A Decimal is its as_tuple(): sign, coefficient, exponent.     *)
(* String formatting follows the semantics of str.format of CPython 3.10   *)
(* and later, where the format spec '0' applied to a str pads nothing.     *)
(***************************************************************************)
EXTENDS Integers, Sequences, FiniteSets, TLC

VARIABLES result_types, result_rows, pc, error, renderers, row_index,
          str_rows, file, write_index

vars == <<result_types, result_rows, pc, error, renderers, row_index,
          str_rows, file, write_index>>

(***************************************************************************)
(* Bounds of the explored inputs.                                          *)
(***************************************************************************)
MaxColumnRows == 2
MaxCols == 3
MaxRows == 2

(***************************************************************************)
(* Arithmetic and string helpers.                                          *)
(***************************************************************************)
Max(a, b) == IF a >= b THEN a ELSE b
Min(a, b) == IF a <= b THEN a ELSE b

RECURSIVE Pow10(_)
Pow10(n) == IF n <= 0 THEN 1 ELSE 10 * Pow10(n - 1)

RECURSIVE Repeat(_, _)
Repeat(ch, n) == IF n <= 0 THEN "" ELSE ch \o Repeat(ch, n - 1)

Spaces(n) == Repeat(" ", n)

DigitChar == <<"0", "1", "2", "3", "4", "5", "6", "7", "8", "9">>

RECURSIVE NatToStr(_)
NatToStr(n) ==
    IF n < 10 THEN DigitChar[n + 1]
    ELSE NatToStr(n \div 10) \o DigitChar[(n % 10) + 1]

RECURSIVE NumDigits(_)
NumDigits(n) == IF n < 10 THEN 1 ELSE 1 + NumDigits(n \div 10)

CharAt(s, i) == SubSeq(s, i, i)

IsBlank(s) == \A i \in 1..Len(s) : CharAt(s, i) = " "

RECURSIVE SumSeq(_)
SumSeq(s) == IF s = <<>> THEN 0 ELSE Head(s) + SumSeq(Tail(s))

(***************************************************************************)
(* Python values.                                                          *)
(***************************************************************************)
None == [k |-> "None"]
IsNone(v) == v.k = "None"

Str(s) == [k |-> "str", s |-> s]
Date(y, m, d) == [k |-> "date", year |-> y, month |-> m, day |-> d]
Dec(sign, coef, exp) == [k |-> "dec", sign |-> sign, coef |-> coef, exp |-> exp]
Amount(number, currency) == [k |-> "amount", number |-> number, currency |-> currency]
Position(number, currency, cost) ==
    [k |-> "pos", number |-> number, lot |-> [currency |-> currency, cost |-> cost]]
Inventory(positions) == [k |-> "inv", positions |-> positions]

\* Decimal.adjusted(): the exponent of the most significant digit.
adjusted(number) == number.exp + NumDigits(number.coef) - 1

\* Truth value of lot.cost in "if cost:": true when the position has a cost
\* (the optional cost of the data model; Amount is defined outside this file).
Truthy(cost) == ~IsNone(cost)

(***************************************************************************)
(* Python format strings.  A format string is a sequence of pieces: a      *)
(* literal text, or a replacement field '{:<sign><width>.<precision><type>}'*)
(* (precision NoPrecision when absent).                                    *)
(***************************************************************************)
NoPrecision == -1

Lit(text) ==
    [kind |-> "lit", text |-> text, sign |-> "", width |-> 0,
     precision |-> NoPrecision, type |-> ""]

Field(sign, width, precision, type) ==
    [kind |-> "field", text |-> "", sign |-> sign, width |-> width,
     precision |-> precision, type |-> type]

\* str.__format__: cut to the precision, then pad on the right to the width.
str_format(spec, s) ==
    LET cut == IF spec.precision # NoPrecision /\ Len(s) > spec.precision
               THEN SubSeq(s, 1, spec.precision) ELSE s
    IN  cut \o Spaces(spec.width - Len(cut))

\* Decimal._rescale(-precision, ROUND_HALF_EVEN): the coefficient at exponent
\* -precision.
Rescale(number, precision) ==
    LET shift == number.exp + precision
    IN  IF shift >= 0 THEN number.coef * Pow10(shift)
        ELSE LET unit == Pow10(-shift)
                 q == number.coef \div unit
                 r == number.coef % unit
             IN  IF 2 * r > unit \/ (2 * r = unit /\ q % 2 = 1) THEN q + 1 ELSE q

\* Decimal.__format__ with type 'f': sign, integer digits, and, when the
\* precision is positive, the point and exactly precision fractional digits;
\* padded on the left to the width.
Decimal_format(spec, number) ==
    LET coef     == Rescale(number, spec.precision)
        scale    == Pow10(spec.precision)
        intpart  == NatToStr(coef \div scale)
        frac     == NatToStr(coef % scale)
        fracpart == Repeat("0", spec.precision - Len(frac)) \o frac
        sign     == IF number.sign = 1 THEN "-" ELSE spec.sign
        body     == sign \o intpart \o
                    (IF spec.precision > 0 THEN "." \o fracpart ELSE "")
    IN  Spaces(spec.width - Len(body)) \o body

format_field(spec, value) ==
    IF spec.type = "f" THEN Decimal_format(spec, value) ELSE str_format(spec, value)

\* The number of replacement fields of a format string.
RECURSIVE NumFields(_)
NumFields(fmt) ==
    IF fmt = <<>> THEN 0
    ELSE (IF Head(fmt).kind = "field" THEN 1 ELSE 0) + NumFields(Tail(fmt))

\* fmt.format(*args), for Len(args) >= NumFields(fmt); surplus arguments are
\* ignored.
RECURSIVE Format(_, _)
Format(fmt, args) ==
    IF fmt = <<>> THEN ""
    ELSE IF Head(fmt).kind = "lit" THEN Head(fmt).text \o Format(Tail(fmt), args)
    ELSE format_field(Head(fmt), Head(args)) \o Format(Tail(fmt), Tail(args))

\* fmt.format(*args) raises IndexError when a field has no argument.
FormatRaises(fmt, args) == NumFields(fmt) > Len(args)

\* sep.join(fmts) on format strings.
RECURSIVE Join(_, _)
Join(sep, fmts) ==
    IF fmts = <<>> THEN <<>>
    ELSE IF Len(fmts) = 1 THEN Head(fmts)
    ELSE Head(fmts) \o <<Lit(sep)>> \o Join(sep, Tail(fmts))

(***************************************************************************)
(* StringRenderer                                                          *)
(***************************************************************************)
StringRenderer == [cls |-> "String", maxlen |-> 0]

StringRenderer_update(self, string) ==
    IF IsNone(string) THEN self
    ELSE [self EXCEPT !.maxlen = Max(@, Len(string.s))]

\* fmt = '{:<maxlen.maxlen}'
StringRenderer_prepare(self) ==
    [fmt |-> <<Field("", self.maxlen, self.maxlen, "")>>] @@ self

StringRenderer_width(self) == self.maxlen

StringRenderer_format(self, string) ==
    Format(self.fmt, <<IF IsNone(string) THEN "" ELSE string.s>>)

(***************************************************************************)
(* DateTimeRenderer                                                        *)
(***************************************************************************)
DateWidth == 10

DateTimeRenderer == [cls |-> "Date", empty |-> Spaces(DateWidth)]

DateTimeRenderer_update(self, dtime) == self

DateTimeRenderer_prepare(self) == self

DateTimeRenderer_width(self) == DateWidth

\* date.strftime('%Y-%m-%d'), for the four-digit years of ledger dates.
strftime(dtime) ==
    LET two(n) == IF n < 10 THEN "0" \o NatToStr(n) ELSE NatToStr(n)
    IN  NatToStr(dtime.year) \o "-" \o two(dtime.month) \o "-" \o two(dtime.day)

DateTimeRenderer_format(self, dtime) ==
    IF IsNone(dtime) THEN self.empty ELSE strftime(dtime)

(***************************************************************************)
(* DecimalRenderer                                                         *)
(***************************************************************************)
\* total_width before prepare() (None in the source).
Unprepared == -1

DecimalRenderer ==
    [cls |-> "Decimal", has_negative |-> FALSE, max_adjusted |-> 0,
     min_exponent |-> 0, total_width |-> Unprepared]

\* A slip: the exponent of the last number instead of the smallest.
DecimalRenderer_update_last(self, number) ==
    IF IsNone(number) THEN self
    ELSE [self EXCEPT
            !.has_negative = IF number.sign = 1 THEN TRUE ELSE @,
            !.max_adjusted = Max(@, adjusted(number)),
            !.min_exponent = number.exp]

DecimalRenderer_update(self, number) ==
    IF IsNone(number) THEN self
    ELSE [self EXCEPT
            !.has_negative = IF number.sign = 1 THEN TRUE ELSE @,
            !.max_adjusted = Max(@, adjusted(number)),
            !.min_exponent = Min(@, number.exp)]

digits_sign(self) == IF self.has_negative THEN 1 ELSE 0

\* A slip: the leading integer digit is not counted.
digits_integral_short(self) == Max(self.max_adjusted, 0)

digits_integral(self) == Max(self.max_adjusted, 0) + 1

digits_fractional(self) == -self.min_exponent

digits_period(self) == IF digits_fractional(self) > 0 THEN 1 ELSE 0

\* fmt = '{:<sign><width>.<precision>f}', empty = ' ' * width
DecimalRenderer_prepare(self) ==
    LET width == digits_sign(self) + digits_integral(self)
                 + digits_period(self) + digits_fractional(self)
    IN  [fmt   |-> <<Field(IF digits_sign(self) > 0 THEN " " ELSE "",
                           width, digits_fractional(self), "f")>>,
         empty |-> Spaces(width)]
        @@ [self EXCEPT !.total_width = width]

DecimalRenderer_width(self) == self.total_width

DecimalRenderer_format(self, number) ==
    IF IsNone(number) THEN self.empty ELSE Format(self.fmt, <<number>>)

(***************************************************************************)
(* What format() gives: a string, a list of strings, or an exception.      *)
(***************************************************************************)
RetStr(s) == [type |-> "str", lines |-> <<s>>, exc |-> ""]
RetList(strings) == [type |-> "list", lines |-> strings, exc |-> ""]
Raise(exc) == [type |-> "raise", lines |-> <<>>, exc |-> exc]

\* A slip: no special case for an empty list of strings.
ReturnStrings_nospecial(self, strings) ==
    IF Len(strings) = 1 THEN RetStr(strings[1]) ELSE RetList(strings)

\* The tail of PositionRenderer.format and InventoryRenderer.format.
ReturnStrings(self, strings) ==
    IF Len(strings) = 1 THEN RetStr(strings[1])
    ELSE IF Len(strings) = 0 THEN RetStr(self.empty)
    ELSE RetList(strings)

(***************************************************************************)
(* PositionRenderer                                                        *)
(***************************************************************************)
PositionRenderer ==
    [cls |-> "Position", units_rdr |-> DecimalRenderer, units_ccylen |-> 0,
     cost_rdr |-> DecimalRenderer, cost_ccylen |-> 0]

PositionRenderer_update(self, pos) ==
    IF IsNone(pos) THEN self
    ELSE LET lot   == pos.lot
             cost  == lot.cost
             units == [self EXCEPT
                         !.units_rdr = DecimalRenderer_update(@, pos.number),
                         !.units_ccylen = Max(@, Len(lot.currency))]
         IN  IF Truthy(cost)
             THEN [units EXCEPT
                     !.cost_rdr = DecimalRenderer_update(@, cost.number),
                     !.cost_ccylen = Max(@, Len(cost.currency))]
             ELSE units

\* fmt_units = '{:<units width>} {:<units_ccylen>}'
fmt_units(self) ==
    <<Field("", DecimalRenderer_width(self.units_rdr), NoPrecision, ""), Lit(" "),
      Field("", self.units_ccylen, NoPrecision, "")>>

\* fmt_cost = '{{{:<cost width>} {:<cost_ccylen>}}}': the fields in literal braces
fmt_cost(self) ==
    <<Lit("{"), Field("", DecimalRenderer_width(self.cost_rdr), NoPrecision, ""),
      Lit(" "), Field("", self.cost_ccylen, NoPrecision, ""), Lit("}")>>

\* A slip: fmt_nocost without the blanks that stand for the cost field.
PositionRenderer_prepare_nofill(self) ==
    LET rdr == [self EXCEPT !.units_rdr = DecimalRenderer_prepare(@),
                            !.cost_rdr = DecimalRenderer_prepare(@)]
        fmts == IF rdr.cost_ccylen = 0
                THEN [fmt_cost   |-> <<>>,
                      fmt_nocost |-> fmt_units(rdr)]
                ELSE [fmt_cost   |-> fmt_units(rdr) \o <<Lit(" ")>> \o fmt_cost(rdr),
                      fmt_nocost |-> fmt_units(rdr)]
    IN  [empty |-> Format(fmts.fmt_nocost, <<"", "">>)] @@ fmts @@ rdr

\* self.fmt_cost is None (here the empty format) when no cost currency was seen.
PositionRenderer_prepare(self) ==
    LET rdr == [self EXCEPT !.units_rdr = DecimalRenderer_prepare(@),
                            !.cost_rdr = DecimalRenderer_prepare(@)]
        fmts == IF rdr.cost_ccylen = 0
                THEN [fmt_cost   |-> <<>>,
                      fmt_nocost |-> fmt_units(rdr)]
                ELSE [fmt_cost   |-> fmt_units(rdr) \o <<Lit(" ")>> \o fmt_cost(rdr),
                      fmt_nocost |-> fmt_units(rdr) \o <<Lit(" ")>> \o
                          <<Lit(Spaces(Len(Format(fmt_cost(rdr), <<"", "">>))))>>]
    IN  [empty |-> Format(fmts.fmt_nocost, <<"", "">>)] @@ fmts @@ rdr

PositionRenderer_width(self) == Len(self.empty)

\* pos.lot on None raises AttributeError.
PositionRenderer_format(self, pos) ==
    IF IsNone(pos) THEN Raise("AttributeError")
    ELSE LET lot  == pos.lot
             cost == lot.cost
             units == DecimalRenderer_format(self.units_rdr, pos.number)
             strings ==
                IF self.cost_ccylen = 0
                THEN <<Format(self.fmt_nocost, <<units, lot.currency>>)>>
                ELSE IF Truthy(cost)
                THEN <<Format(self.fmt_cost,
                         <<units, lot.currency,
                           DecimalRenderer_format(self.cost_rdr, cost.number),
                           cost.currency>>)>>
                ELSE <<Format(self.fmt_nocost, <<units, lot.currency>>)>>
         IN  ReturnStrings(self, strings)

(***************************************************************************)
(* InventoryRenderer(PositionRenderer)                                     *)
(***************************************************************************)
InventoryRenderer == [PositionRenderer EXCEPT !.cls = "Inventory"]

RECURSIVE UpdatePositions(_, _)
UpdatePositions(self, positions) ==
    IF positions = <<>> THEN self
    ELSE UpdatePositions(PositionRenderer_update(self, Head(positions)),
                         Tail(positions))

InventoryRenderer_update(self, inv) ==
    IF IsNone(inv) THEN self ELSE UpdatePositions(self, inv.positions)

\* inv.get_positions() on None raises AttributeError.
InventoryRenderer_format(self, inv) ==
    IF IsNone(inv) THEN Raise("AttributeError")
    ELSE LET line(position) ==
                LET lot  == position.lot
                    cost == lot.cost
                    units == DecimalRenderer_format(self.units_rdr, position.number)
                IN  IF self.cost_ccylen = 0
                    THEN Format(self.fmt_nocost, <<units, lot.currency>>)
                    ELSE IF Truthy(cost)
                    THEN Format(self.fmt_cost,
                           <<units, lot.currency,
                             DecimalRenderer_format(self.cost_rdr, cost.number),
                             cost.currency>>)
                    ELSE Format(self.fmt_nocost, <<units, lot.currency>>)
             strings == [i \in 1..Len(inv.positions) |-> line(inv.positions[i])]
         IN  ReturnStrings(self, strings)

(***************************************************************************)
(* Dispatch on the renderer class (RENDERERS and the method calls).        *)
(***************************************************************************)
RENDERERS(dtype) ==
    CASE dtype = "str"       -> StringRenderer
      [] dtype = "date"      -> DateTimeRenderer
      [] dtype = "Decimal"   -> DecimalRenderer
      [] dtype = "Position"  -> PositionRenderer
      [] dtype = "Inventory" -> InventoryRenderer

update(self, value) ==
    CASE self.cls = "String"    -> StringRenderer_update(self, value)
      [] self.cls = "Date"      -> DateTimeRenderer_update(self, value)
      [] self.cls = "Decimal"   -> DecimalRenderer_update(self, value)
      [] self.cls = "Position"  -> PositionRenderer_update(self, value)
      [] self.cls = "Inventory" -> InventoryRenderer_update(self, value)

prepare(self) ==
    CASE self.cls = "String"    -> StringRenderer_prepare(self)
      [] self.cls = "Date"      -> DateTimeRenderer_prepare(self)
      [] self.cls = "Decimal"   -> DecimalRenderer_prepare(self)
      [] self.cls = "Position"  -> PositionRenderer_prepare(self)
      [] self.cls = "Inventory" -> PositionRenderer_prepare(self)

width(self) ==
    CASE self.cls = "String"    -> StringRenderer_width(self)
      [] self.cls = "Date"      -> DateTimeRenderer_width(self)
      [] self.cls = "Decimal"   -> DecimalRenderer_width(self)
      [] self.cls = "Position"  -> PositionRenderer_width(self)
      [] self.cls = "Inventory" -> PositionRenderer_width(self)

format(self, value) ==
    CASE self.cls = "String"    -> RetStr(StringRenderer_format(self, value))
      [] self.cls = "Date"      -> RetStr(DateTimeRenderer_format(self, value))
      [] self.cls = "Decimal"   -> RetStr(DecimalRenderer_format(self, value))
      [] self.cls = "Position"  -> PositionRenderer_format(self, value)
      [] self.cls = "Inventory" -> InventoryRenderer_format(self, value)

(***************************************************************************)
(* The inputs explored.                                                    *)
(***************************************************************************)
DTypes == {"str", "date", "Decimal", "Position", "Inventory"}

\*  10.5, -200.25, -0, 1E+2, 0.05, 7, 0.00
Decimals ==
    {Dec(0, 105, -1), Dec(1, 20025, -2), Dec(1, 0, 0), Dec(0, 1, 2),
     Dec(0, 5, -2), Dec(0, 7, 0), Dec(0, 0, -2)}

Costs == {None, Amount(Dec(0, 5105, -1), "USD"), Amount(Dec(0, 7, 0), "CA")}

Positions ==
    {Position(Dec(0, 15, -1), "USD", cost) : cost \in Costs}
    \cup {Position(Dec(1, 20, 0), "HOOL", cost) : cost \in Costs}

P1 == Position(Dec(0, 15, -1), "USD", None)
P2 == Position(Dec(1, 20, 0), "HOOL", Amount(Dec(0, 5105, -1), "USD"))
P3 == Position(Dec(0, 3, 0), "CA", Amount(Dec(0, 7, 0), "CA"))

Inventories ==
    {Inventory(ps) : ps \in {<<>>, <<P1>>, <<P2>>, <<P1, P2>>, <<P1, P3>>,
                             <<P3, P2, P1>>}}

\* The cells of a one-column table.
ColumnCells(dtype) ==
    {None} \cup
    CASE dtype = "str"       -> {Str(""), Str("a"), Str("abc")}
      [] dtype = "date"      -> {Date(2014, 1, 2), Date(1999, 12, 31)}
      [] dtype = "Decimal"   -> Decimals
      [] dtype = "Position"  -> Positions
      [] dtype = "Inventory" -> Inventories

\* The two cells of a column of a table of several columns: a value and an
\* empty one.
TableCells(dtype) ==
    CASE dtype = "str"       -> <<Str("ab"), None>>
      [] dtype = "date"      -> <<Date(2014, 1, 2), None>>
      [] dtype = "Decimal"   -> <<Dec(1, 15, -1), None>>
      [] dtype = "Position"  -> <<P2, None>>
      [] dtype = "Inventory" -> <<Inventory(<<P1, P2, P3>>), Inventory(<<>>)>>

\* The cell of a table whose rows differ in length.
RaggedCell(dtype) ==
    IF dtype = "str" THEN Str("ab") ELSE Inventory(<<P2, P1>>)

\* The column types of a table of n columns: any types for the first two
\* columns, which the later columns repeat in turn.
TypesOf(dtypes, n) ==
    {[c \in 1..n |-> <<"col", dt[c % 2]>>] : dt \in [{0, 1} -> dtypes]}

\* The rows of a table: the odd columns hold one of their two cells and the
\* even columns one of theirs (every combination, up to two columns).
RowsOf(types) ==
    {[c \in 1..Len(types) |-> TableCells(types[c][2])[choice[c % 2]]] :
        choice \in [{0, 1} -> {1, 2}]}

\* A row of length Len(types) - 1, Len(types) or Len(types) + 1.
RaggedRowsOf(types) ==
    LET n    == Len(types)
        full == [c \in 1..n |-> RaggedCell(types[c][2])]
    IN  {SubSeq(full, 1, n - 1), full, full \o <<Str("x")>>}

Started ==
    /\ pc = "start"
    /\ error = ""
    /\ renderers = <<>>
    /\ row_index = 0
    /\ str_rows = <<>>
    /\ file = <<>>
    /\ write_index = 0

\* One column of any type, over a rich set of cells.
InitColumn ==
    /\ \E dtype \in DTypes, r \in 0..MaxColumnRows :
          /\ result_types = <<<<"col", dtype>>>>
          /\ result_rows \in [1..r -> {<<cell>> : cell \in ColumnCells(dtype)}]
    /\ Started

\* Tables of up to MaxCols columns and MaxRows rows matching the columns.
InitTable ==
    /\ \E n \in 0..MaxCols, r \in 0..MaxRows :
          /\ result_types \in TypesOf(DTypes, n)
          /\ result_rows \in [1..r -> RowsOf(result_types)]
    /\ Started

\* Tables some of whose rows are shorter or longer than the columns.
InitRagged ==
    /\ \E n \in 1..MaxCols, r \in 1..MaxRows :
          /\ result_types \in TypesOf({"str", "Inventory"}, n)
          /\ result_rows \in [1..r -> RaggedRowsOf(result_types)]
    /\ Started

Init == InitColumn \/ InitTable \/ InitRagged

(***************************************************************************)
(* render_text(result_types, result_rows, file)                            *)
(***************************************************************************)
num_cols == Len(result_types)

Fail(exc) ==
    /\ pc' = "failed"
    /\ error' = exc

\* assert len(result_types) == len(result_rows[0]) fails.
AssertionFails ==
    /\ pc = "start"
    /\ result_rows # <<>>
    /\ Len(result_types) # Len(result_rows[1])
    /\ Fail("AssertionError")
    /\ UNCHANGED <<result_types, result_rows, renderers, row_index, str_rows,
                   file, write_index>>

\* The assert passes; get_renderers creates one renderer per column.
CreateRenderers ==
    /\ pc = "start"
    /\ ~(result_rows # <<>> /\ Len(result_types) # Len(result_rows[1]))
    /\ renderers' = [c \in 1..num_cols |-> RENDERERS(result_types[c][2])]
    /\ row_index' = 1
    /\ pc' = "update"
    /\ UNCHANGED <<result_types, result_rows, error, str_rows, file, write_index>>

\* for value, renderer in zip(row, renderers): renderer.update(value)
UpdateRow ==
    /\ pc = "update"
    /\ row_index <= Len(result_rows)
    /\ LET row == result_rows[row_index]
       IN  renderers' = [c \in 1..num_cols |->
                           IF c <= Len(row) THEN update(renderers[c], row[c])
                           ELSE renderers[c]]
    /\ row_index' = row_index + 1
    /\ UNCHANGED <<result_types, result_rows, pc, error, str_rows, file, write_index>>

\* for renderer in renderers: renderer.prepare()
Prepare ==
    /\ pc = "update"
    /\ row_index > Len(result_rows)
    /\ renderers' = [c \in 1..num_cols |-> prepare(renderers[c])]
    /\ row_index' = 1
    /\ pc' = "format"
    /\ UNCHANGED <<result_types, result_rows, error, str_rows, file, write_index>>

\* exp_lines = renderer.format(value) for value, renderer in zip(row, renderers)
exp_row(row) ==
    [c \in 1..Min(Len(row), num_cols) |-> format(renderers[c], row[c])]

RECURSIVE max_lines(_)
max_lines(exp) ==
    IF exp = <<>> THEN 1
    ELSE LET rest == max_lines(Tail(exp))
         IN  IF Head(exp).type = "list" THEN Max(rest, Len(Head(exp).lines))
             ELSE rest

\* A slip: a value that has run out of lines repeats its last line.
str_lines_repeat(exp) ==
    IF max_lines(exp) = 1
    THEN <<[c \in 1..Len(exp) |-> exp[c].lines[1]]>>
    ELSE [index \in 1..max_lines(exp) |->
            [c \in 1..Len(exp) |->
               exp[c].lines[Min(index, Len(exp[c].lines))]]]

\* The rendered rows of one result row: the row itself when every value is a
\* string, else max_lines rows filled up with '' (zip_longest).
str_lines(exp) ==
    IF max_lines(exp) = 1
    THEN <<[c \in 1..Len(exp) |-> exp[c].lines[1]]>>
    ELSE [index \in 1..max_lines(exp) |->
            [c \in 1..Len(exp) |->
               IF index <= Len(exp[c].lines) THEN exp[c].lines[index] ELSE ""]]

\* A slip: the rendered rows of a row are put before those of the earlier rows.
FormatRow_prepend ==
    /\ pc = "format"
    /\ row_index <= Len(result_rows)
    /\ LET exp == exp_row(result_rows[row_index])
       IN  /\ \A c \in 1..Len(exp) : exp[c].type # "raise"
           /\ str_rows' = str_lines(exp) \o str_rows
    /\ row_index' = row_index + 1
    /\ UNCHANGED <<result_types, result_rows, pc, error, renderers, file, write_index>>

FormatRow ==
    /\ pc = "format"
    /\ row_index <= Len(result_rows)
    /\ LET exp == exp_row(result_rows[row_index])
       IN  /\ \A c \in 1..Len(exp) : exp[c].type # "raise"
           /\ str_rows' = str_rows \o str_lines(exp)
    /\ row_index' = row_index + 1
    /\ UNCHANGED <<result_types, result_rows, pc, error, renderers, file, write_index>>

\* A renderer's format() raises: render_text ends with the exception.
FormatRowRaises ==
    /\ pc = "format"
    /\ row_index <= Len(result_rows)
    /\ LET exp == exp_row(result_rows[row_index])
       IN  \E c \in 1..Len(exp) :
              /\ exp[c].type = "raise"
              /\ \A b \in 1..(c - 1) : exp[b].type # "raise"
              /\ Fail(exp[c].exc)
    /\ UNCHANGED <<result_types, result_rows, renderers, row_index, str_rows,
                   file, write_index>>

\* formats = ['{:<width>}' for renderer in renderers]
formats == [c \in 1..Len(renderers) |->
              <<Field("", width(renderers[c]), NoPrecision, "")>>]

line_formatter == <<Lit("| ")>> \o Join(" | ", formats) \o <<Lit(" |\n")>>

\* A slip: the columns of the border joined by '+' alone.
line_body_narrow ==
    "-" \o Format(Join("+", [c \in 1..Len(formats) |->
                               <<Lit(Repeat("-", Len(Format(formats[c], <<"">>))))>>]),
                  <<>>) \o "-"

line_body ==
    "-" \o Format(Join("-+-", [c \in 1..Len(formats) |->
                                 <<Lit(Repeat("-", Len(Format(formats[c], <<"">>))))>>]),
                  <<>>) \o "-"

top_line == "," \o line_body \o ".\n"
middle_line == "+" \o line_body \o "+\n"
\* "`{}'\n".format(line_body); the two quote characters are cut from one
\* literal, as a back quote in a string must be followed by an apostrophe.
Quotes == "`'"
bottom_line == SubSeq(Quotes, 1, 1) \o line_body \o SubSeq(Quotes, 2, 2) \o "\n"

WriteTop ==
    /\ pc = "format"
    /\ row_index > Len(result_rows)
    /\ file' = Append(file, top_line)
    /\ pc' = "middle"
    /\ UNCHANGED <<result_types, result_rows, error, renderers, row_index,
                   str_rows, write_index>>

WriteMiddle ==
    /\ pc = "middle"
    /\ file' = Append(file, middle_line)
    /\ write_index' = 1
    /\ pc' = "rows"
    /\ UNCHANGED <<result_types, result_rows, error, renderers, row_index, str_rows>>

\* line = line_formatter.format(*str_row); file.write(line)
WriteRow ==
    /\ pc = "rows"
    /\ write_index <= Len(str_rows)
    /\ ~FormatRaises(line_formatter, str_rows[write_index])
    /\ file' = Append(file, Format(line_formatter, str_rows[write_index]))
    /\ write_index' = write_index + 1
    /\ UNCHANGED <<result_types, result_rows, pc, error, renderers, row_index, str_rows>>

\* A rendered row with fewer strings than columns: format() raises IndexError.
WriteRowRaises ==
    /\ pc = "rows"
    /\ write_index <= Len(str_rows)
    /\ FormatRaises(line_formatter, str_rows[write_index])
    /\ Fail("IndexError")
    /\ UNCHANGED <<result_types, result_rows, renderers, row_index, str_rows,
                   file, write_index>>

WriteBottom ==
    /\ pc = "rows"
    /\ write_index > Len(str_rows)
    /\ file' = Append(file, bottom_line)
    /\ pc' = "done"
    /\ UNCHANGED <<result_types, result_rows, error, renderers, row_index,
                   str_rows, write_index>>

Next ==
    \/ AssertionFails
    \/ CreateRenderers
    \/ UpdateRow
    \/ Prepare
    \/ FormatRow
    \/ FormatRowRaises
    \/ WriteTop
    \/ WriteMiddle
    \/ WriteRow
    \/ WriteRowRaises
    \/ WriteBottom

Spec == Init /\ [][Next]_vars

(***************************************************************************)
(* Vocabulary of the properties.                                           *)
(***************************************************************************)
\* update() has been called on every cell and prepare() has run.
Prepared ==
    \/ pc \in {"format", "middle", "rows", "done"}
    \/ (pc = "failed" /\ error # "AssertionError")

\* Every row has as many cells as there are columns.
WellFormed == \A r \in 1..Len(result_rows) : Len(result_rows[r]) = num_cols

Columns(dtypes) == {c \in 1..num_cols : result_types[c][2] \in dtypes}

\* The rows that have a cell in column c, and that cell.
RowsWith(c) == {r \in 1..Len(result_rows) : c <= Len(result_rows[r])}
Cell(r, c) == result_rows[r][c]

SetMax(S) == CHOOSE x \in S : \A y \in S : y <= x
SetMin(S) == CHOOSE x \in S : \A y \in S : x <= y

\* The numbers accumulated by the Decimal column c.
Numbers(c) == {Cell(r, c) : r \in {q \in RowsWith(c) : ~IsNone(Cell(q, c))}}

\* The positions accumulated by the Position or Inventory column c.
PositionsOf(cell) ==
    IF IsNone(cell) THEN {}
    ELSE IF cell.k = "pos" THEN {cell}
    ELSE {cell.positions[i] : i \in 1..Len(cell.positions)}

Accumulated(c) == UNION {PositionsOf(Cell(r, c)) : r \in RowsWith(c)}

(***************************************************************************)
(* C1.  Constant-width column: once every cell of a column has been passed *)
(* to update() and prepare() has run, format(v) of every cell v of the     *)
(* column gives a string of exactly width() characters, or a list whose    *)
(* every line has exactly width() characters.                              *)
(* Fails: format(None) of a Position or Inventory column raises (see C2).  *)
(***************************************************************************)
ConstantWidthAt(c, v) ==
    LET ret == format(renderers[c], v)
    IN  /\ ret.type # "raise"
        /\ \A i \in 1..Len(ret.lines) : Len(ret.lines[i]) = width(renderers[c])

C1_ConstantWidth ==
    Prepared =>
        \A c \in 1..num_cols : \A r \in RowsWith(c) : ConstantWidthAt(c, Cell(r, c))

(***************************************************************************)
(* C2.  Absence: for every column type, formatting a None cell after       *)
(* prepare() succeeds and gives one string (one physical line) of exactly  *)
(* width() blanks.                                                         *)
(* Fails: PositionRenderer.format and InventoryRenderer.format dereference *)
(* None.                                                                   *)
(***************************************************************************)
C2_Absence ==
    Prepared =>
        \A c \in 1..num_cols :
            LET ret == format(renderers[c], None)
            IN  /\ ret.type = "str"
                /\ ret.lines = <<Spaces(width(renderers[c]))>>

(***************************************************************************)
(* C3.  Schema mismatch is rejected fail-fast: when a row at any index has *)
(* a length other than the number of columns, render_text fails before any *)
(* update or format pass begins and nothing is written.                    *)
(* Fails: only result_rows[0] is checked.                                  *)
(***************************************************************************)
C3_SchemaFailFast ==
    ~WellFormed =>
        /\ pc \in {"start", "failed"}
        /\ pc = "failed" => error = "AssertionError"
        /\ row_index = 0
        /\ file = <<>>

(***************************************************************************)
(* C6.  Decimal column width: after prepare(), width() = sign width +      *)
(* integer digits + point width + fractional digits of the accumulated     *)
(* numbers; it is never negative, and 1 when no number was accumulated.    *)
(***************************************************************************)
ExpectedDecimalWidth(numbers) ==
    LET sign_width == IF \E n \in numbers : n.sign = 1 THEN 1 ELSE 0
        largest    == IF numbers = {} THEN 0
                      ELSE SetMax({adjusted(n) : n \in numbers})
        smallest   == IF numbers = {} THEN 0
                      ELSE SetMin({n.exp : n \in numbers})
        integer_digits    == Max(largest, 0) + 1
        fractional_digits == Max(0, -smallest)
        point_width       == IF fractional_digits > 0 THEN 1 ELSE 0
    IN  sign_width + integer_digits + point_width + fractional_digits

C6_DecimalWidth ==
    Prepared =>
        \A c \in Columns({"Decimal"}) :
            /\ width(renderers[c]) = ExpectedDecimalWidth(Numbers(c))
            /\ width(renderers[c]) >= 0
            /\ Numbers(c) = {} => width(renderers[c]) = 1

\* {10.5, -200.25} has been accumulated and the width is 1 + 3 + 1 + 2 = 7.
C6_Witness ==
    /\ Prepared
    /\ result_types = <<<<"col", "Decimal">>>>
    /\ Numbers(1) = {Dec(0, 105, -1), Dec(1, 20025, -2)}
    /\ width(renderers[1]) = 7

(***************************************************************************)
(* C7.  No truncation: for every number d accumulated by a Decimal column, *)
(* format(d) stripped of its padding and parsed back as a decimal equals d *)
(* numerically; the precision is at least d's fractional digits and the    *)
(* field at least as wide as d's sign and integer digits.                  *)
(***************************************************************************)
RECURSIVE StrToNat(_)
StrToNat(s) ==
    IF s = "" THEN 0
    ELSE 10 * StrToNat(SubSeq(s, 1, Len(s) - 1))
         + (CHOOSE d \in 0..9 : DigitChar[d + 1] = CharAt(s, Len(s)))

RECURSIVE Strip(_)
Strip(s) ==
    IF s # "" /\ CharAt(s, 1) = " " THEN Strip(SubSeq(s, 2, Len(s)))
    ELSE IF s # "" /\ CharAt(s, Len(s)) = " " THEN Strip(SubSeq(s, 1, Len(s) - 1))
    ELSE s

\* Decimal(text) for a text [-]digits[.digits]
ParseDecimal(text) ==
    LET sign   == IF CharAt(text, 1) = "-" THEN 1 ELSE 0
        digits == IF sign = 1 THEN SubSeq(text, 2, Len(text)) ELSE text
        points == {i \in 1..Len(digits) : CharAt(digits, i) = "."}
        point  == IF points = {} THEN Len(digits) + 1 ELSE SetMin(points)
        int    == SubSeq(digits, 1, point - 1)
        frac   == SubSeq(digits, point + 1, Len(digits))
    IN  Dec(sign, StrToNat(int \o frac), -Len(frac))

\* a == b as numbers: equal after scaling to the smaller exponent (-0 == 0).
NumEqual(a, b) ==
    LET e  == Min(a.exp, b.exp)
        ca == a.coef * Pow10(a.exp - e)
        cb == b.coef * Pow10(b.exp - e)
    IN  ca = cb /\ (ca # 0 => a.sign = b.sign)

C7_NoTruncation ==
    Prepared =>
        \A c \in Columns({"Decimal"}) : \A d \in Numbers(c) :
            LET text == DecimalRenderer_format(renderers[c], d)
            IN  /\ NumEqual(ParseDecimal(Strip(text)), d)
                /\ renderers[c].fmt[1].precision >= -d.exp
                /\ width(renderers[c]) >= d.sign + Max(adjusted(d), 0) + 1

\* 10.5 has been formatted to two fractional digits beside -200.25.
C7_Witness ==
    /\ pc = "done"
    /\ result_types = <<<<"col", "Decimal">>>>
    /\ result_rows = <<<<Dec(0, 105, -1)>>, <<Dec(1, 20025, -2)>>>>
    /\ DecimalRenderer_format(renderers[1], Dec(0, 105, -1)) = "  10.50"
    /\ DecimalRenderer_format(renderers[1], Dec(1, 20025, -2)) = "-200.25"

(***************************************************************************)
(* Logical and physical rows.                                              *)
(***************************************************************************)
\* The format pass has completed the logical rows 1..Formatted.
Formatting == pc \in {"format", "middle", "rows", "done"}
Formatted == IF pc = "format" THEN row_index - 1 ELSE Len(result_rows)

\* The lines cell (r, c) formats to (a plain string counting as one line).
CellLines(r, c) == format(renderers[c], Cell(r, c)).lines
LineCount(r, c) == Len(CellLines(r, c))

\* N = max(c_i), the physical rows of logical row r.
PhysicalRows(r) == SetMax({1} \cup {LineCount(r, c) : c \in 1..num_cols})

\* The physical rows of the logical rows before r.
RECURSIVE Offset(_)
Offset(r) == IF r <= 1 THEN 0 ELSE Offset(r - 1) + PhysicalRows(r - 1)

\* The physical rows of logical row r: in physical row k, column c shows the
\* k-th line of its cell when the cell has one, else blanks of the column's
\* width.  (<<>> \o f is the function f of domain 1..n as a tuple.)
RowBlock(r) ==
    LET lines == <<>> \o [c \in 1..num_cols |-> CellLines(r, c)]
        N     == SetMax({1} \cup {Len(lines[c]) : c \in 1..num_cols})
    IN  [k \in 1..N |->
           <<>> \o [c \in 1..num_cols |->
                      IF k <= Len(lines[c]) THEN lines[c][k]
                      ELSE Spaces(width(renderers[c]))]]

\* The physical rows of the logical rows 1..m, in order.
RECURSIVE ExpectedRows(_)
ExpectedRows(m) == IF m = 0 THEN <<>> ELSE ExpectedRows(m - 1) \o RowBlock(m)

RECURSIVE JoinStr(_, _)
JoinStr(sep, strings) ==
    IF strings = <<>> THEN ""
    ELSE IF Len(strings) = 1 THEN Head(strings)
    ELSE Head(strings) \o sep \o JoinStr(sep, Tail(strings))

\* The text of a physical row.
PhysicalLine(fields) == "| " \o JoinStr(" | ", fields) \o " |\n"

IsPrefix(s, t) == Len(s) <= Len(t) /\ s = SubSeq(t, 1, Len(s))

(***************************************************************************)
(* C4.  Row expansion: a logical row whose cells format to line counts     *)
(* c_1..c_m gives exactly N = max(c_i) physical rows; in physical row k    *)
(* column i shows the k-th line of cell i when k <= c_i, and otherwise a   *)
(* blank field of the column's width.                                      *)
(***************************************************************************)
C4_RowExpansion ==
    (Formatting /\ WellFormed) =>
        /\ \A i \in 1..Len(str_rows) : Len(str_rows[i]) = num_cols
        /\ [i \in 1..Len(str_rows) |->
              [c \in 1..num_cols |-> Format(formats[c], <<str_rows[i][c]>>)]]
           = ExpectedRows(Formatted)

\* A row of line counts [1, 3, 1] has given three physical rows, the second
\* and third blank in the first and third columns.
C4_Witness ==
    /\ pc = "done"
    /\ WellFormed
    /\ num_cols = 3
    /\ Len(result_rows) = 1
    /\ LineCount(1, 1) = 1 /\ LineCount(1, 2) = 3 /\ LineCount(1, 3) = 1
    /\ Len(str_rows) = 3
    /\ str_rows[1][1] = "ab" /\ str_rows[1][3] = "ab"
    /\ \A k \in {2, 3} : \A c \in {1, 3} :
          Format(formats[c], <<str_rows[k][c]>>) = "  "
    /\ file[4] = "|    | -20.0 HOOL {510.5 USD} |    |\n"

(***************************************************************************)
(* C5.  Order preservation: the lines written are the top border, the      *)
(* separator border, the physical rows and the bottom border; the physical *)
(* rows of logical row i precede those of row j for i < j, in line order   *)
(* 1..N within a row, none dropped, duplicated or interleaved.             *)
(***************************************************************************)
ExpectedFile ==
    LET rows == ExpectedRows(Len(result_rows))
    IN  <<top_line, middle_line>>
        \o [i \in 1..Len(rows) |-> PhysicalLine(rows[i])]
        \o <<bottom_line>>

C5_OrderPreservation ==
    WellFormed =>
        /\ pc \in {"start", "update", "format"} => file = <<>>
        /\ pc \in {"middle", "rows"} =>
              LET expected == ExpectedFile IN IsPrefix(file, expected)
        /\ pc = "done" =>
              /\ file = ExpectedFile
              /\ CharAt(file[1], 1) = ","
              /\ CharAt(file[2], 1) = "+"
              /\ CharAt(file[Len(file)], 1) = SubSeq(Quotes, 1, 1)

\* Two logical rows, the first of three lines and the second of one, written.
C5_Witness ==
    /\ pc = "done"
    /\ WellFormed
    /\ Len(result_rows) = 2
    /\ PhysicalRows(1) = 3 /\ PhysicalRows(2) = 1
    /\ Len(file) = 7
    /\ file[3] # file[4] /\ file[4] # file[5] /\ file[5] # file[6]

(***************************************************************************)
(* C8.  Cost field of a Position or Inventory column: when no accumulated  *)
(* position carried a cost, the column reserves no space for a cost field  *)
(* and every line omits it; when one did, every line of the column has the *)
(* same width: a position with a cost shows the brace-wrapped cost amount  *)
(* and currency, one without shows blanks over exactly that field's width. *)
(***************************************************************************)
PadRight(s, n) == s \o Spaces(n - Len(s))

HasCost(c) == \E p \in Accumulated(c) : ~IsNone(p.lot.cost)

UnitsText(rdr, p) ==
    DecimalRenderer_format(rdr.units_rdr, p.number) \o " "
    \o PadRight(p.lot.currency, rdr.units_ccylen)

CostText(rdr, cost) ==
    "{" \o DecimalRenderer_format(rdr.cost_rdr, cost.number) \o " "
    \o PadRight(cost.currency, rdr.cost_ccylen) \o "}"

CostFieldWidth(rdr) == DecimalRenderer_width(rdr.cost_rdr) + rdr.cost_ccylen + 3

PositionSeq(cell) == IF cell.k = "pos" THEN <<cell>> ELSE cell.positions

C8_CostField ==
    Prepared =>
        \A c \in Columns({"Position", "Inventory"}) :
            LET rdr == renderers[c]
                units_width == DecimalRenderer_width(rdr.units_rdr) + 1 + rdr.units_ccylen
            IN  /\ ~HasCost(c) => width(rdr) = units_width
                /\ HasCost(c) => width(rdr) = units_width + 1 + CostFieldWidth(rdr)
                /\ \A r \in {q \in RowsWith(c) : ~IsNone(Cell(q, c))} :
                      LET positions == PositionSeq(Cell(r, c))
                          lines     == CellLines(r, c)
                      IN  /\ \A i \in 1..Len(lines) : Len(lines[i]) = width(rdr)
                          /\ positions # <<>> => Len(lines) = Len(positions)
                          /\ \A i \in 1..Len(positions) :
                                LET p == positions[i]
                                IN  lines[i] =
                                      IF ~HasCost(c) THEN UnitsText(rdr, p)
                                      ELSE IF ~IsNone(p.lot.cost)
                                      THEN UnitsText(rdr, p) \o " "
                                           \o CostText(rdr, p.lot.cost)
                                      ELSE UnitsText(rdr, p) \o " "
                                           \o Spaces(CostFieldWidth(rdr))

\* One Inventory cell of a position without a cost and one with a cost: two
\* physical rows, the first with a blank cost field.
C8_Witness ==
    /\ pc = "done"
    /\ result_types = <<<<"col", "Inventory">>>>
    /\ result_rows = <<<<Inventory(<<P1, P2>>)>>>>
    /\ Len(file) = 5
    /\ file[3] = "|   1.5 USD              |\n"
    /\ file[4] = "| -20.0 HOOL {510.5 USD} |\n"

\* No position of the column carried a cost: the lines end with the currency.
C8_WitnessNoCost ==
    /\ pc = "done"
    /\ result_types = <<<<"col", "Position">>>>
    /\ Len(result_rows) = 2
    /\ ~HasCost(1)
    /\ Accumulated(1) # {}
    /\ file[3] = "| -20.0 HOOL |\n"

(***************************************************************************)
(* C9.  Empty inventory: an Inventory cell of zero positions is no error;  *)
(* after prepare() it formats to one string of width() blanks, never a     *)
(* list, and a row whose other cells are single-line gives exactly one     *)
(* physical row.                                                           *)
(***************************************************************************)
IsEmptyInventory(cell) == ~IsNone(cell) /\ cell.k = "inv" /\ cell.positions = <<>>

SingleLineRow(r) ==
    \A c \in 1..num_cols : format(renderers[c], Cell(r, c)).type = "str"

C9_EmptyInventory ==
    Prepared =>
        /\ \A c \in Columns({"Inventory"}) : \A r \in RowsWith(c) :
              IsEmptyInventory(Cell(r, c)) =>
                  format(renderers[c], Cell(r, c))
                      = RetStr(Spaces(width(renderers[c])))
        /\ (/\ WellFormed
            /\ pc = "format"
            /\ row_index > 1
            /\ \E c \in 1..num_cols : IsEmptyInventory(Cell(row_index - 1, c))
            /\ SingleLineRow(row_index - 1))
           => Len(str_rows) = Offset(row_index - 1) + 1

\* A row of a string and an empty inventory has been formatted, after a row of
\* three lines, to one physical row.
C9_Witness ==
    /\ pc = "format"
    /\ WellFormed
    /\ row_index = 3
    /\ PhysicalRows(1) = 3
    /\ \E c \in Columns({"Inventory"}) :
          /\ IsEmptyInventory(Cell(2, c))
          /\ width(renderers[c]) > 0
          /\ str_rows[4][c] = Spaces(width(renderers[c]))
    /\ Columns({"str"}) # {}
    /\ SingleLineRow(2)
    /\ Len(str_rows) = 4

(***************************************************************************)
(* C10.  Uniform line length: in a successful render_text call over rows   *)
(* as long as the columns, every line written has the same length, the sum *)
(* of the column widths + 3 * (number of columns) + 1 characters before    *)
(* the newline; for zero rows exactly the three borders are written.       *)
(* Fails for a table of no columns, whose lines are 4 characters long.     *)
(***************************************************************************)
SumWidths == SumSeq([c \in 1..num_cols |-> width(renderers[c])])

LinesAre(n) ==
    \A i \in 1..Len(file) :
        /\ Len(file[i]) = n + 1
        /\ CharAt(file[i], n + 1) = "\n"

C10_UniformLength ==
    (pc = "done" /\ WellFormed) =>
        /\ LinesAre(SumWidths + 3 * num_cols + 1)
        /\ result_rows = <<>> => Len(file) = 3

(***************************************************************************)
(* C10, amended: ... the sum of the column widths + 3 * (number of         *)
(* columns) + 1 characters when there is at least one column, and 4        *)
(* characters when there is none.                                          *)
(***************************************************************************)
C10_UniformLengthAmended ==
    (pc = "done" /\ WellFormed) =>
        /\ LinesAre(IF num_cols = 0 THEN 4 ELSE SumWidths + 3 * num_cols + 1)
        /\ result_rows = <<>> => Len(file) = 3

\* A table of two columns and a row of three lines written: five lines with
\* the fillers, all of one length.
C10_Witness ==
    /\ pc = "done"
    /\ WellFormed
    /\ num_cols = 2
    /\ Len(result_rows) = 1
    /\ PhysicalRows(1) = 3
    /\ Len(file) = 6
    /\ LinesAre(SumWidths + 7)

====
